---- MODULE Spec2Model ----
(***************************************************************************)
(* Model of cut_videos.py: the folder scanner, the thread-pool dispatcher  *)
(* (process_videos_folder), the per-video pipeline (process_video,         *)
(* cut_video_with_end) and the per-segment transcoder                      *)
(* (cut_single_segment_with_end).                                          *)
(*                                                                         *)
(* Times are whole seconds.  A file is the pair <<stem, extension>>, its   *)
(* name being stem.extension.  One step of a video task runs the Python    *)
(* code up to and including its next blocking call (an ffmpeg probe or     *)
(* run, or os.makedirs); a blocking call either returns or raises.         *)
(***************************************************************************)
EXTENDS Integers, Sequences, FiniteSets, TLC

\* ---- bounds of the model ------------------------------------------------
\* durations are multiples of Tick seconds, cut lengths of 2 * Tick seconds
Tick == 5
\* longest video: MaxTicks * Tick seconds
MaxTicks == 20
\* longest cut length: MaxCutTicks * 2 * Tick seconds
MaxCutTicks == 4
\* largest --workers value tried by the pool specification
MaxWorkers == 2
\* --cut_duration used by the pool specification
PoolCut == 30

Durations == {k * Tick : k \in 0..MaxTicks}
CutLengths == {2 * k * Tick : k \in 1..MaxCutTicks}

\* ---- folder scanner -----------------------------------------------------
video_extensions == <<"mp4", "avi", "mov", "mkv", "flv", "wmv", "m4v">>

\* str.upper() on the extension part of a pattern
Upper(s) ==
    CASE s = "mp4" -> "MP4" [] s = "avi" -> "AVI" [] s = "mov" -> "MOV"
      [] s = "mkv" -> "MKV" [] s = "flv" -> "FLV" [] s = "wmv" -> "WMV"
      [] s = "m4v" -> "M4V" [] OTHER -> s

\* os.path.normcase on a case-insensitive platform
Lower(s) ==
    CASE s = "MP4" -> "mp4" [] s = "AVI" -> "avi" [] s = "MOV" -> "mov"
      [] s = "MKV" -> "mkv" [] s = "FLV" -> "flv" [] s = "WMV" -> "wmv"
      [] s = "M4V" -> "m4v" [] OTHER -> s

\* Path(p).stem and the suffix of a file name
Stem(f) == f[1]
Ext(f) == f[2]

\* an order in which a directory listing is returned
RECURSIVE SetToSeq(_)
SetToSeq(S) ==
    IF S = {} THEN <<>>
    ELSE LET x == CHOOSE y \in S : TRUE IN <<x>> \o SetToSeq(S \ {x})

\* glob.glob(os.path.join(input_folder, "*." + pat)); ci: the platform's
\* fnmatch folds case (Windows), otherwise it compares exactly (POSIX)
Glob(dir, pat, ci) ==
    SetToSeq({f \in dir : IF ci THEN Lower(Ext(f)) = Lower(pat) ELSE Ext(f) = pat})

RECURSIVE ScanFrom(_, _, _)
ScanFrom(k, dir, ci) ==
    IF k > Len(video_extensions) THEN <<>>
    ELSE Glob(dir, video_extensions[k], ci)
           \o Glob(dir, Upper(video_extensions[k]), ci)
           \o ScanFrom(k + 1, dir, ci)

ScanFolder(dir, ci) == ScanFrom(1, dir, ci)

\* ---- per-video planner --------------------------------------------------
Max(a, b) == IF a >= b THEN a ELSE b

\* NumSegments without the floor of 1 on the decrement
NumSegmentsNoFloor(D, C) ==
    LET n == D \div C
    IN  IF n * C >= D THEN n - 1 ELSE n

NumSegments(D, C) ==
    LET n == D \div C
    IN  IF n * C >= D THEN Max(1, n - 1) ELSE n

\* SegStart with the index off by one
SegStartOffByOne(i, C) == (i - 1) * C

SegStart(i, C) == i * C

SegEnd(i, C, D) == IF (i + 1) * C > D THEN D ELSE (i + 1) * C

TooShort(s, e, C) == 2 * (e - s) < C

\* os.path.join(video_output_dir, f"segment_{i+1:03d}.mp4")
OutputPath(f, i) == <<Stem(f), i + 1>>

VARIABLES
    folder,            \* the files of input_folder
    case_insensitive,  \* whether the platform's glob folds case
    dur,               \* file -> duration of its first stream, in seconds
    cut_duration,      \* --cut_duration
    max_workers,       \* --workers
    main_pc,           \* position of process_videos_folder
    video_files,       \* the scanner's list
    tasks,             \* submitted video tasks, by submission order
    queue,             \* the executor's work queue (task ids)
    running,           \* task ids being run by a worker thread
    collected,         \* futures already yielded by as_completed
    dispatch_log,      \* task ids whose exception the dispatcher logged
    tmp_made,          \* number of temporary directories created so far
    tmp_dirs,          \* temporary directories that exist
    outro_files        \* temporary directories holding prepared_end.mp4

vars == <<folder, case_insensitive, dur, cut_duration, max_workers, main_pc,
          video_files, tasks, queue, running, collected, dispatch_log,
          tmp_made, tmp_dirs, outro_files>>

env == <<folder, case_insensitive, dur, cut_duration, max_workers>>

TaskIds == 1..Len(tasks)

\* the state of a video task when it is submitted
NewTask(f) ==
    [file |-> f, pc |-> "queued", status |-> "none",
     video_duration |-> 0, num_segments |-> 0, i |-> 0,
     start_time |-> 0, end_time |-> 0, success |-> FALSE,
     temp_dir |-> 0, seg_temp_dir |-> 0,
     emitted |-> <<>>, outputs |-> {},
     res_probes |-> 0, outro_preps |-> 0]

\* tempfile.mkdtemp: a name no directory has or had
FreshDir == tmp_made + 1

\* ---- initial states -----------------------------------------------------
\* the pool specification: a few folders, fixed durations and cut length;
\* a scenario is <<files of the folder, glob folds case>>
PoolScenarios ==
    { <<{<<"a", "mp4">>, <<"a", "avi">>, <<"b", "MP4">>}, FALSE>>,
      <<{<<"a", "mp4">>, <<"b", "MP4">>, <<"notes", "txt">>}, FALSE>>,
      <<{<<"a", "avi">>}, TRUE>>,
      <<{<<"notes", "txt">>}, FALSE>> }

PoolDur(f) ==
    CASE f = <<"a", "mp4">> -> 70
      [] f = <<"a", "avi">> -> 40
      [] f = <<"b", "MP4">> -> 20
      [] OTHER -> 0

InitRun ==
    /\ main_pc = "scan"
    /\ video_files = <<>>
    /\ tasks = <<>>
    /\ queue = <<>>
    /\ running = {}
    /\ collected = {}
    /\ dispatch_log = {}
    /\ tmp_made = 0
    /\ tmp_dirs = {}
    /\ outro_files = {}

Init ==
    /\ \E sc \in PoolScenarios :
          /\ folder = sc[1]
          /\ case_insensitive = sc[2]
    /\ dur = [f \in folder |-> PoolDur(f)]
    /\ cut_duration = PoolCut
    /\ max_workers \in 1..MaxWorkers
    /\ InitRun

\* the planner specification: one video of any duration, any cut length
PlanFolders == { {<<"a", "mp4">>}, {<<"notes", "txt">>} }

InitPlan ==
    /\ folder \in PlanFolders
    /\ case_insensitive = FALSE
    /\ dur \in [folder -> Durations]
    /\ cut_duration \in CutLengths
    /\ max_workers = 1
    /\ InitRun

\* ---- process_videos_folder (main thread) --------------------------------
\* lines 212-231: scan; return when nothing was found
Scan ==
    /\ main_pc = "scan"
    /\ video_files' = ScanFolder(folder, case_insensitive)
    /\ main_pc' = IF video_files' = <<>> THEN "done" ELSE "submit"
    /\ UNCHANGED <<env, tasks, queue, running, collected, dispatch_log,
                   tmp_made, tmp_dirs, outro_files>>

\* lines 234-237: executor.submit of the next video
Submit ==
    /\ main_pc = "submit"
    /\ Len(tasks) < Len(video_files)
    /\ tasks' = Append(tasks, NewTask(video_files[Len(tasks) + 1]))
    /\ queue' = Append(queue, Len(tasks) + 1)
    /\ main_pc' = IF Len(tasks') = Len(video_files) THEN "collect" ELSE "submit"
    /\ UNCHANGED <<env, video_files, running, collected, dispatch_log,
                   tmp_made, tmp_dirs, outro_files>>

\* Collect with the task's exception not caught: it leaves the loop and the
\* pool is shut down without running what is still queued
CollectUncaught(t) ==
    /\ main_pc = "collect"
    /\ t \notin collected
    /\ tasks[t].pc = "finished"
    /\ collected' = collected \cup {t}
    /\ IF tasks[t].status = "raised"
         THEN main_pc' = "done" /\ queue' = <<>>
         ELSE UNCHANGED <<main_pc, queue>>
    /\ UNCHANGED <<env, video_files, tasks, running, dispatch_log,
                   tmp_made, tmp_dirs, outro_files>>

\* lines 240-245: as_completed yields a finished future; result() re-raises
\* the task's exception, which is caught and logged
Collect(t) ==
    /\ main_pc = "collect"
    /\ t \notin collected
    /\ tasks[t].pc = "finished"
    /\ collected' = collected \cup {t}
    /\ dispatch_log' = IF tasks[t].status = "raised"
                         THEN dispatch_log \cup {t} ELSE dispatch_log
    /\ UNCHANGED <<env, main_pc, video_files, tasks, queue, running,
                   tmp_made, tmp_dirs, outro_files>>

\* line 245 -> end of the with block: executor.shutdown(wait=True)
MainExit ==
    /\ main_pc = "collect"
    /\ collected = TaskIds
    /\ queue = <<>>
    /\ running = {}
    /\ main_pc' = "done"
    /\ UNCHANGED <<env, video_files, tasks, queue, running, collected,
                   dispatch_log, tmp_made, tmp_dirs, outro_files>>

\* ---- worker threads -----------------------------------------------------
\* WorkerTake with the thread limit off by one
WorkerTakeOneMore(t) ==
    /\ queue # <<>>
    /\ t = Head(queue)
    /\ Cardinality(running) <= max_workers
    /\ queue' = Tail(queue)
    /\ running' = running \cup {t}
    /\ tasks' = [tasks EXCEPT ![t].pc = "makedirs"]
    /\ UNCHANGED <<env, main_pc, video_files, collected, dispatch_log,
                   tmp_made, tmp_dirs, outro_files>>

\* ThreadPoolExecutor(max_workers): a worker thread takes the oldest queued
\* work item; at most max_workers threads exist
WorkerTake(t) ==
    /\ queue # <<>>
    /\ t = Head(queue)
    /\ Cardinality(running) < max_workers
    /\ queue' = Tail(queue)
    /\ running' = running \cup {t}
    /\ tasks' = [tasks EXCEPT ![t].pc = "makedirs"]
    /\ UNCHANGED <<env, main_pc, video_files, collected, dispatch_log,
                   tmp_made, tmp_dirs, outro_files>>

\* task t in state r leaves process_video (returning or raising): its future
\* completes and the worker thread is free again
Finish(t, r, st) ==
    /\ tasks' = [tasks EXCEPT ![t] = [r EXCEPT !.pc = "finished", !.status = st]]
    /\ running' = running \ {t}

\* lines 194-203: os.makedirs(video_output_dir) returns or raises
ProcessVideo(t) ==
    /\ t \in running
    /\ tasks[t].pc = "makedirs"
    /\ \/ /\ tasks' = [tasks EXCEPT ![t].pc = "duration"]
          /\ UNCHANGED running
       \/ Finish(t, tasks[t], "raised")
    /\ UNCHANGED <<env, main_pc, video_files, queue, collected, dispatch_log,
                   tmp_made, tmp_dirs, outro_files>>

\* AfterDuration without the early return for a video shorter than the cut
AfterDurationNoSkip(t, D) ==
    /\ tasks' = [tasks EXCEPT ![t] =
           [@ EXCEPT !.video_duration = D,
                     !.num_segments = NumSegments(D, cut_duration),
                     !.pc = "prepare"]]
    /\ UNCHANGED running

\* lines 108-123 with get_video_duration (lines 11-21): the probe returns the
\* duration, or raises and 0 is used; a video shorter than the cut is skipped
AfterDuration(t, D) ==
    IF D < cut_duration
      THEN Finish(t, [tasks[t] EXCEPT !.video_duration = D], "skipped")
      ELSE /\ tasks' = [tasks EXCEPT ![t] =
                   [@ EXCEPT !.video_duration = D,
                             !.num_segments = NumSegments(D, cut_duration),
                             !.pc = "prepare"]]
           /\ UNCHANGED running

GetVideoDuration(t) ==
    /\ t \in running
    /\ tasks[t].pc = "duration"
    /\ \/ AfterDuration(t, dur[tasks[t].file])
       \/ AfterDuration(t, 0)
    /\ UNCHANGED <<env, main_pc, video_files, queue, collected, dispatch_log,
                   tmp_made, tmp_dirs, outro_files>>

\* lines 126-138: probe the source's resolution and the outro's duration;
\* on success enter the TemporaryDirectory, on failure return
PrepareProbe(t) ==
    /\ t \in running
    /\ tasks[t].pc = "prepare"
    /\ LET r == [tasks[t] EXCEPT !.res_probes = @ + 1]
       IN  \/ /\ tasks' = [tasks EXCEPT ![t] =
                      [r EXCEPT !.temp_dir = FreshDir, !.pc = "outro"]]
              /\ tmp_dirs' = tmp_dirs \cup {FreshDir}
              /\ tmp_made' = tmp_made + 1
              /\ UNCHANGED running
           \/ /\ Finish(t, r, "prepare_failed")
              /\ UNCHANGED <<tmp_made, tmp_dirs>>
    /\ UNCHANGED <<env, main_pc, video_files, queue, collected, dispatch_log,
                   outro_files>>

\* OutroTranscode whose failure path returns without removing temp_dir
OutroTranscodeLeak(t) ==
    /\ t \in running
    /\ tasks[t].pc = "outro"
    /\ LET r == [tasks[t] EXCEPT !.outro_preps = @ + 1]
       IN  \/ /\ tasks' = [tasks EXCEPT ![t] = [r EXCEPT !.pc = "loop"]]
              /\ outro_files' = outro_files \cup {r.temp_dir}
              /\ UNCHANGED running
           \/ /\ Finish(t, r, "outro_failed")
              /\ UNCHANGED outro_files
    /\ UNCHANGED <<env, main_pc, video_files, queue, collected, dispatch_log,
                   tmp_made, tmp_dirs>>

\* lines 140-164: transcode the outro into temp_dir/prepared_end.mp4; on
\* failure return, which leaves the with block and removes temp_dir
OutroTranscode(t) ==
    /\ t \in running
    /\ tasks[t].pc = "outro"
    /\ LET r == [tasks[t] EXCEPT !.outro_preps = @ + 1]
       IN  \/ /\ tasks' = [tasks EXCEPT ![t] = [r EXCEPT !.pc = "loop"]]
              /\ outro_files' = outro_files \cup {r.temp_dir}
              /\ UNCHANGED <<running, tmp_made, tmp_dirs>>
           \/ /\ Finish(t, r, "outro_failed")
              /\ tmp_dirs' = tmp_dirs \ {r.temp_dir}
              /\ UNCHANGED tmp_made
              /\ outro_files' = outro_files \ {r.temp_dir}
    /\ UNCHANGED <<env, main_pc, video_files, queue, collected, dispatch_log>>

\* ---- the segment loop of cut_video_with_end ------------------------------
\* lines 167-181 and the end of the with block (line 187): plan segment i,
\* or leave the loop, which removes temp_dir and returns to process_video
SegPlan(t) ==
    /\ t \in running
    /\ tasks[t].pc = "loop"
    /\ LET r == tasks[t]
           s == SegStart(r.i, cut_duration)
           e == SegEnd(r.i, cut_duration, r.video_duration)
       IN  IF r.i >= r.num_segments
             THEN /\ Finish(t, r, "ok")
                  /\ tmp_dirs' = tmp_dirs \ {r.temp_dir}
                  /\ UNCHANGED tmp_made
                  /\ outro_files' = outro_files \ {r.temp_dir}
             ELSE /\ tasks' = [tasks EXCEPT ![t] =
                        IF TooShort(s, e, cut_duration)
                          THEN [r EXCEPT !.start_time = s, !.end_time = e,
                                         !.i = @ + 1]
                          ELSE [r EXCEPT !.start_time = s, !.end_time = e,
                                         !.emitted = Append(@,
                                             [index |-> r.i + 1, start |-> s,
                                              end |-> e,
                                              path |-> OutputPath(r.file, r.i)]),
                                         !.pc = "seg_probe"]]
                  /\ UNCHANGED <<running, tmp_made, tmp_dirs, outro_files>>
    /\ UNCHANGED <<env, main_pc, video_files, queue, collected, dispatch_log>>

\* lines 92-101: an exception inside cut_single_segment_with_end is caught
\* and False is returned; leaving the inner with block removes its directory
SegFailed(t, r) ==
    /\ tasks' = [tasks EXCEPT ![t] =
           [r EXCEPT !.success = FALSE, !.seg_temp_dir = 0, !.pc = "seg_return"]]
    /\ tmp_dirs' = tmp_dirs \ {r.seg_temp_dir}
    /\ UNCHANGED tmp_made

\* lines 28-39: probe the source for its resolution, then enter the
\* segment's own TemporaryDirectory
SegProbe(t) ==
    /\ t \in running
    /\ tasks[t].pc = "seg_probe"
    /\ LET r == [tasks[t] EXCEPT !.res_probes = @ + 1]
       IN  \/ /\ tasks' = [tasks EXCEPT ![t] =
                      [r EXCEPT !.seg_temp_dir = FreshDir, !.pc = "seg_transcode"]]
              /\ tmp_dirs' = tmp_dirs \cup {FreshDir}
              /\ tmp_made' = tmp_made + 1
           \/ SegFailed(t, r)
    /\ UNCHANGED <<env, main_pc, video_files, queue, running, collected,
                   dispatch_log, outro_files>>

\* lines 43-66: cut and re-encode [start_time, end_time] into temp_main.mp4
SegTranscode(t) ==
    /\ t \in running
    /\ tasks[t].pc = "seg_transcode"
    /\ \/ /\ tasks' = [tasks EXCEPT ![t].pc = "seg_concat"]
          /\ UNCHANGED <<tmp_made, tmp_dirs>>
       \/ SegFailed(t, tasks[t])
    /\ UNCHANGED <<env, main_pc, video_files, queue, running, collected,
                   dispatch_log, outro_files>>

\* lines 69-80: concatenate temp_main.mp4 and prepared_end_path into
\* output_path; the run can only succeed when the prepared outro exists
SegConcat(t) ==
    /\ t \in running
    /\ tasks[t].pc = "seg_concat"
    /\ LET r == tasks[t]
       IN  \/ /\ r.temp_dir \in outro_files
              /\ tasks' = [tasks EXCEPT ![t] =
                      [r EXCEPT !.outputs = @ \cup {OutputPath(r.file, r.i)},
                                !.seg_temp_dir = 0, !.pc = "seg_verify"]]
              /\ tmp_dirs' = tmp_dirs \ {r.seg_temp_dir}
              /\ UNCHANGED tmp_made
           \/ SegFailed(t, r)
    /\ UNCHANGED <<env, main_pc, video_files, queue, running, collected,
                   dispatch_log, outro_files>>

\* lines 82-91: probe the output's duration (a mismatch only warns)
SegVerify(t) ==
    /\ t \in running
    /\ tasks[t].pc = "seg_verify"
    /\ \/ /\ tasks' = [tasks EXCEPT ![t] =
                  [@ EXCEPT !.success = TRUE, !.pc = "seg_return"]]
          /\ UNCHANGED <<tmp_made, tmp_dirs>>
       \/ SegFailed(t, tasks[t])
    /\ UNCHANGED <<env, main_pc, video_files, queue, running, collected,
                   dispatch_log, outro_files>>

\* SegReturn that leaves the loop after a failed segment
SegReturnStopOnFailure(t) ==
    /\ t \in running
    /\ tasks[t].pc = "seg_return"
    /\ tasks' = [tasks EXCEPT ![t] =
           [@ EXCEPT !.i = IF tasks[t].success THEN @ + 1 ELSE tasks[t].num_segments,
                     !.pc = "loop"]]
    /\ UNCHANGED <<env, main_pc, video_files, queue, running, collected,
                   dispatch_log, tmp_made, tmp_dirs, outro_files>>

\* lines 183-187: log the outcome and go on with the next index
SegReturn(t) ==
    /\ t \in running
    /\ tasks[t].pc = "seg_return"
    /\ tasks' = [tasks EXCEPT ![t] = [@ EXCEPT !.i = @ + 1, !.pc = "loop"]]
    /\ UNCHANGED <<env, main_pc, video_files, queue, running, collected,
                   dispatch_log, tmp_made, tmp_dirs, outro_files>>

\* ---- specifications -----------------------------------------------------
Next ==
    \/ Scan
    \/ Submit
    \/ MainExit
    \/ \E t \in TaskIds : Collect(t)
    \/ \E t \in TaskIds : WorkerTake(t)
    \/ \E t \in TaskIds : ProcessVideo(t)
    \/ \E t \in TaskIds : GetVideoDuration(t)
    \/ \E t \in TaskIds : PrepareProbe(t)
    \/ \E t \in TaskIds : OutroTranscode(t)
    \/ \E t \in TaskIds : SegPlan(t)
    \/ \E t \in TaskIds : SegProbe(t)
    \/ \E t \in TaskIds : SegTranscode(t)
    \/ \E t \in TaskIds : SegConcat(t)
    \/ \E t \in TaskIds : SegVerify(t)
    \/ \E t \in TaskIds : SegReturn(t)

\* a folder of videos dispatched to the pool
Spec == Init /\ [][Next]_vars

\* one video, every duration and cut length
SpecPlan == InitPlan /\ [][Next]_vars

\* the pool when every thread keeps being scheduled and every call into the
\* media engine returns
FairSpec == Init /\ [][Next]_vars /\ WF_vars(Next)

\* ---- properties ---------------------------------------------------------
Finished(t) == tasks[t].pc = "finished"

\* task t ran its whole segment loop
Completed(t) == Finished(t) /\ tasks[t].status = "ok"

\* task t is past the duration check of cut_video_with_end
PastDurationCheck(t) ==
    /\ tasks[t].pc \notin {"queued", "makedirs", "duration"}
    /\ tasks[t].status # "raised"

Span(seg) == <<seg.start, seg.end>>

Spans(t) == [k \in 1..Len(tasks[t].emitted) |-> Span(tasks[t].emitted[k])]

\* the reference rule: floor(D / C) segments, one fewer (but not fewer than
\* one) when they would reach the end of the video; segment k is
\* [(k-1)*C, k*C] and is written with index k
RefCount(D, C) ==
    LET n == D \div C
    IN  IF n * C >= D THEN (IF n - 1 < 1 THEN 1 ELSE n - 1) ELSE n

RefSegments(f, D, C) ==
    [k \in 1..RefCount(D, C) |->
        [index |-> k, start |-> (k - 1) * C, end |-> k * C, path |-> <<Stem(f), k>>]]

\* C1: every segment handed to the transcoder lies within [0, D] and is at
\* most C long, and the last segment handed over is at least C/2 long.
C1_SegmentsWithinBounds ==
    \A t \in TaskIds :
        LET r == tasks[t]
            n == Len(r.emitted)
        IN  /\ \A k \in 1..n :
                  /\ r.emitted[k].start >= 0
                  /\ r.emitted[k].end <= r.video_duration
                  /\ r.emitted[k].end - r.emitted[k].start <= cut_duration
            /\ n >= 1 =>
                  2 * (r.emitted[n].end - r.emitted[n].start) >= cut_duration

C1_Witness ==
    \E t \in TaskIds :
        /\ Completed(t)
        /\ Len(tasks[t].emitted) >= 2
        /\ tasks[t].video_duration % cut_duration # 0

\* C2: the segments of a video that ran its whole loop are contiguous from
\* 0, and what is left uncovered after the last one is shorter than C/2.
C2_OnlyShortTailDropped ==
    \A t \in TaskIds :
        Completed(t) =>
            LET r == tasks[t]
                n == Len(r.emitted)
            IN  /\ n >= 1
                /\ r.emitted[1].start = 0
                /\ \A k \in 1..(n - 1) : r.emitted[k + 1].start = r.emitted[k].end
                /\ 2 * (r.video_duration - r.emitted[n].end) < cut_duration

\* C3: a video that ran its whole loop handed over exactly the segments of
\* the reference rule, none skipped; 100/30, 40/30 and 30/30 give the spans
\* of the examples.
C3_PlanEqualsReference ==
    \A t \in TaskIds :
        Completed(t) =>
            LET r == tasks[t]
                D == r.video_duration
            IN  /\ r.emitted = RefSegments(r.file, D, cut_duration)
                /\ (D = 100 /\ cut_duration = 30) =>
                      Spans(t) = << <<0, 30>>, <<30, 60>>, <<60, 90>> >>
                /\ (D = 40 /\ cut_duration = 30) => Spans(t) = << <<0, 30>> >>
                /\ (D = 30 /\ cut_duration = 30) => Spans(t) = << <<0, 30>> >>

C3_Witness ==
    \E t \in TaskIds :
        /\ Completed(t)
        /\ tasks[t].video_duration = cut_duration
        /\ Len(tasks[t].emitted) = 1

\* C4: a video whose probed duration is below the cut length (0 when the
\* probe failed) ends skipped: no segment handed over, no resolution probe,
\* no temporary directory, no outro transcode, no output file.
C4_ShortVideoEmitsNothing ==
    \A t \in TaskIds :
        (PastDurationCheck(t) /\ tasks[t].video_duration < cut_duration) =>
            /\ Finished(t)
            /\ tasks[t].status = "skipped"
            /\ tasks[t].emitted = <<>>
            /\ tasks[t].outputs = {}
            /\ tasks[t].res_probes = 0
            /\ tasks[t].outro_preps = 0
            /\ tasks[t].temp_dir = 0

\* a skipped video whose duration probe failed although the file is long
C4_Witness ==
    \E t \in TaskIds :
        /\ Finished(t)
        /\ tasks[t].status = "skipped"
        /\ tasks[t].video_duration = 0
        /\ dur[tasks[t].file] >= cut_duration

\* the scan found more videos than the pool has workers
PoolSmaller == main_pc # "scan" /\ max_workers < Len(video_files)

AllFinished ==
    /\ Len(tasks) = Len(video_files)
    /\ \A t \in TaskIds : Finished(t)

\* C5: with more videos than workers, never more than max_workers tasks run
\* at once, process_videos_folder returns only after every task finished,
\* and it does return.
C5_AllFinishWithinPool ==
    /\ [](PoolSmaller => Cardinality(running) <= max_workers)
    /\ []((PoolSmaller /\ main_pc = "done") => AllFinished)
    /\ (PoolSmaller ~> (main_pc = "done" /\ AllFinished))

C5_Witness ==
    /\ PoolSmaller
    /\ Cardinality(running) = max_workers
    /\ queue # <<>>

Failed(t) ==
    /\ Finished(t)
    /\ tasks[t].status \in {"raised", "prepare_failed", "outro_failed"}

\* C6: when process_videos_folder returns, every submitted video was run to
\* its end whatever happened to the others, an escaped exception was logged
\* by the dispatcher, and every video that ran its loop handed over the
\* segments its own duration gives.
C6_FailureIsolated ==
    main_pc = "done" =>
        /\ AllFinished
        /\ \A t \in TaskIds :
              /\ tasks[t].status = "raised" <=> t \in dispatch_log
              /\ Completed(t) =>
                    tasks[t].emitted =
                        RefSegments(tasks[t].file, dur[tasks[t].file], cut_duration)

C6_Witness ==
    /\ main_pc = "done"
    /\ \E t, u \in TaskIds :
          /\ t < u
          /\ tasks[t].status = "raised"
          /\ Completed(u)
          /\ tasks[u].outputs # {}

\* C7: no two video tasks write the same output path.
C7_NoSharedOutputPath ==
    \A t, u \in TaskIds :
        t # u => tasks[t].outputs \cap tasks[u].outputs = {}

\* C8: a video that handed N >= 1 segments to the transcoder probed its
\* source for the resolution exactly once.
C8_OneResolutionProbe ==
    \A t \in TaskIds :
        (Completed(t) /\ Len(tasks[t].emitted) >= 1) => tasks[t].res_probes = 1

InSegment(t) ==
    tasks[t].pc \in {"seg_probe", "seg_transcode", "seg_concat", "seg_verify",
                     "seg_return"}

\* C9: the segments handed over so far are 1, 2, ..., k in that order, the
\* segment in progress is the last of them, the loop stands at k between
\* segments, and a video that ran its whole loop handed over all
\* num_segments of them, whatever failed.
C9_EverySegmentOnceInOrder ==
    \A t \in TaskIds :
        LET r == tasks[t]
        IN  /\ \A k \in 1..Len(r.emitted) : r.emitted[k].index = k
            /\ InSegment(t) => r.i + 1 = Len(r.emitted)
            /\ r.pc = "loop" => r.i = Len(r.emitted)
            /\ Completed(t) => Len(r.emitted) = r.num_segments

\* a video whose first segment failed and whose second one was written
C9_Witness ==
    \E t \in TaskIds :
        /\ Completed(t)
        /\ tasks[t].num_segments >= 2
        /\ OutputPath(tasks[t].file, 0) \notin tasks[t].outputs
        /\ OutputPath(tasks[t].file, 1) \in tasks[t].outputs

InWithBlock(t) == tasks[t].pc = "outro" \/ tasks[t].pc = "loop" \/ InSegment(t)

\* C10: the outro is prepared at most once per video; while the video is in
\* its segment loop its own directory exists and holds the prepared outro;
\* no directory is held by two tasks; a finished task's directories are
\* gone, and none is left when process_videos_folder returns.
C10_ScopedOutroDirectory ==
    /\ \A t \in TaskIds :
          LET r == tasks[t]
          IN  /\ r.outro_preps <= 1
              /\ InWithBlock(t) => r.temp_dir \in tmp_dirs
              /\ (r.pc = "loop" \/ InSegment(t)) =>
                    (r.temp_dir \in outro_files /\ r.outro_preps = 1)
              /\ Finished(t) =>
                    (r.temp_dir \notin tmp_dirs /\ r.seg_temp_dir = 0)
    /\ \A t, u \in TaskIds :
          (t # u /\ tasks[t].temp_dir # 0) =>
              tasks[t].temp_dir \notin {tasks[u].temp_dir, tasks[u].seg_temp_dir}
    /\ main_pc = "done" => (tmp_dirs = {} /\ outro_files = {})

C10_Witness ==
    \E t, u \in TaskIds :
        /\ tasks[t].status = "outro_failed"
        /\ InSegment(u)
        /\ tasks[u].seg_temp_dir # 0
        /\ Len(tasks[u].emitted) = 2

====
